---- MODULE Spec2Model ----
(***************************************************************************)
(* Model of the gist -> activity incremental sync of normrain/testApi.     *)
(*                                                                         *)
(* Two trigger paths share the process state:                              *)
(*   - runJob (startup call in app.listen, and the cron callback): one     *)
(*     sync cycle, getGithubData -> preparePipedriveData -> postPipedrive; *)
(*   - app.get('/users/:name'): the on-demand single user lookup, which    *)
(*     maintains the per-user lastVisit.                                   *)
(*                                                                         *)
(* JavaScript runs each handler to completion between two awaits, so one   *)
(* action of the model is the code from one resumption (or the            *)
(* invocation) up to the next awaited network call.                        *)
(*                                                                         *)
(* Network responses follow the interface of the two remote services:      *)
(* a GET answers 200 with an array of gists, or a non-200 status with a    *)
(* message, or the transport throws; a POST answers 201 with               *)
(* {data: {id, subject}, success}, or a non-201 status with an error, or   *)
(* the transport throws.                                                   *)
(***************************************************************************)
EXTENDS Integers, Sequences, FiniteSets, TLC

\* ------------------------------------------------------------------ bounds
MaxUsers  == 2      \* longest tracked-user list read from the config
MaxGists  == 2      \* gists ever created at the source
MaxTime   == 2      \* last tick of the wall clock
MaxCycles == 2      \* runJob invocations (they may overlap)
MaxReqs   == 1      \* GET /users/:name requests beside the sync cycles
MaxVisits == 2      \* GET /users/:name requests on their own (they may overlap)
MaxEntries == 2     \* transform input: collections in a batch
MaxRecords == 2     \* transform input: records in one collection

\* --------------------------------------------------------------- constants
\* let lastRun = "never": the sentinel, earlier than every timestamp (the
\* clock starts at 1).
never == 0
\* user.lastVisit "is initially empty": a falsy value.
unset == 0

UserNames == <<"alice", "bob", "carol", "dave">>
Cycles    == 1..MaxCycles
Reqs      == 1..MaxReqs
Visits    == 1..MaxVisits
AllReqs   == Reqs \cup Visits

VARIABLES
    users,      \* config.users: sequence of [name, lastVisit]
    lastRun,    \* the module-level checkpoint of the server
    now,        \* the wall clock read by timestamp()
    github,     \* the source: set of gists [id, owner, created]
    pipedrive,  \* the destination: sequence of created activities
    job,        \* one record per runJob invocation
    req,        \* one record per GET /users/:name request
    listening,  \* the app.listen callback has run
    tpc, tIn, tOut  \* the transformer applied to an arbitrary batch

vars == <<users, lastRun, now, github, pipedrive, job, req, listening,
          tpc, tIn, tOut>>
syncVars == <<users, lastRun, now, github, pipedrive, job, req, listening>>
transformVars == <<tpc, tIn, tOut>>

\* ------------------------------------------------------------ pure helpers
RECURSIVE SumLen(_)
SumLen(json) ==
    IF json = <<>> THEN 0 ELSE Len(Head(json)) + SumLen(Tail(json))

\* util.js countArray: the total number of gists in the two-level array.
countArray(json) == SumLen(json)

\* util.js timestamp(): the wall clock at the moment of the call.
timestamp == now

\* One gist pushed by the inner loop of preparePipedriveData.
Activity(gists) ==
    [ subject |-> gists.id,
      note    |-> <<gists.html_url, "; Owner: ", gists.owner.login>>,
      type    |-> "Task",
      done    |-> 0 ]

RECURSIVE prepareEntries(_)
prepareEntries(entries) ==
    IF entries = <<>> THEN <<>>
    ELSE <<Activity(Head(entries))>> \o prepareEntries(Tail(entries))

RECURSIVE preparePipedriveDataSwapped(_)
preparePipedriveDataSwapped(json) ==
    IF json = <<>> THEN <<>>
    ELSE preparePipedriveDataSwapped(Tail(json)) \o prepareEntries(Head(json))

RECURSIVE preparePipedriveData(_)
preparePipedriveData(json) ==
    IF json = <<>> THEN <<>>
    ELSE prepareEntries(Head(json)) \o preparePipedriveData(Tail(json))

\* ------------------------------------------------------------- the source
RECURSIVE SortById(_)
SortById(S) ==
    IF S = {} THEN <<>>
    ELSE LET g == CHOOSE x \in S : \A y \in S : x.id <= y.id
         IN  <<g>> \o SortById(S \ {g})

\* The gist as the source API serialises it.
RawRecord(g) ==
    [id |-> g.id, html_url |-> <<"gist", g.id>>, owner |-> [login |-> g.owner]]

RECURSIVE RawRecords(_)
RawRecords(gs) ==
    IF gs = <<>> THEN <<>> ELSE <<RawRecord(Head(gs))>> \o RawRecords(Tail(gs))

\* GET <githubBaseUrl>/users/{name}/gists[?since=t]: the user's gists, only
\* those not older than t when the query carries since.
GistsOf(url) ==
    RawRecords(SortById({g \in github :
        /\ g.owner = url.name
        /\ (url.since = <<>> \/ g.created >= url.since[1])}))

\* What the awaited GET can produce: 200 with the array, a non-200 status
\* with a message, or a thrown transport error.
GetResponses(url) ==
    { [thrown |-> FALSE, status |-> 200, json |-> GistsOf(url)],
      [thrown |-> FALSE, status |-> 404, json |-> <<>>],
      [thrown |-> TRUE,  status |-> 0,   json |-> <<>>] }

\* What the awaited POST can produce: 201 with the created activity, a
\* non-201 status with an error, or a thrown transport error.
PostResponses(entry) ==
    { [thrown |-> FALSE, status |-> 201,
       json |-> [data |-> [id |-> Len(pipedrive) + 1,
                           subject |-> entry.subject],
                 success |-> TRUE]],
      [thrown |-> FALSE, status |-> 400,
       json |-> [data |-> [id |-> 0, subject |-> entry.subject],
                 success |-> FALSE]],
      [thrown |-> TRUE,  status |-> 0,
       json |-> [data |-> [id |-> 0, subject |-> entry.subject],
                 success |-> FALSE]] }

\* The destination creates the activity exactly when it answers 201.
Created(resp) ==
    IF ~resp.thrown /\ resp.status = 201
    THEN Append(pipedrive, resp.json.data)
    ELSE pipedrive

\* ---------------------------------------------------------- getGithubData
\* The url of one retrieval: the user, and ?since= only after a first run.
getUrlAlwaysSince(user, since) == [name |-> user.name, since |-> <<since>>]

getUrl(user, since) ==
    [name |-> user.name, since |-> IF since # never THEN <<since>> ELSE <<>>]

\* try { ... if (status !== 200) throw ... else responseArray.push(json) }
\* catch (error) { console.log(error) }
pushGistsOrEmpty(responseArray, resp) ==
    IF ~resp.thrown /\ resp.status = 200
    THEN Append(responseArray, resp.json)
    ELSE Append(responseArray, <<>>)

pushGists(responseArray, resp) ==
    IF ~resp.thrown /\ resp.status = 200
    THEN Append(responseArray, resp.json)
    ELSE responseArray

\* for (const user of users): the try/catch is inside the loop body, so the
\* loop goes on to the next user whatever the response was.
getLoopStopsOnSuccess(i, n, resp) == i < n /\ (resp.thrown \/ resp.status # 200)

getLoopStopsOnError(i, n, resp) == i < n /\ ~resp.thrown /\ resp.status = 200

getLoopContinues(i, n, resp) == i < n

\* ---------------------------------------------------------- postPipedrive
\* try { ... if (status !== 201) throw ... else responseArray.push({...}) }
\* catch (error) { console.log(error) }
pushActivityFirst(responseArray, resp) ==
    IF ~resp.thrown /\ resp.status = 201
    THEN <<[id |-> resp.json.data.id, subject |-> resp.json.data.subject,
            success |-> resp.json.success]>> \o responseArray
    ELSE responseArray

pushActivity(responseArray, resp) ==
    IF ~resp.thrown /\ resp.status = 201
    THEN Append(responseArray, [id |-> resp.json.data.id,
                                subject |-> resp.json.data.subject,
                                success |-> resp.json.success])
    ELSE responseArray

\* for (const entry of postData): as above, the loop goes on after a failure.
postLoopStopsOnError(j, n, resp) == j < n /\ ~resp.thrown /\ resp.status = 201

postLoopContinues(j, n, resp) == j < n

\* ------------------------------------------------------------------ runJob
\* if (postedData.length > 0) { lastRun = timestamp() } else { warn }:
\* the value of runJob's parameter lastRun after the branch.
checkpointAfterAnyPost(param, postedData) ==
    IF Len(postedData) >= 0 THEN timestamp ELSE param

checkpointAfter(param, postedData) ==
    IF Len(postedData) > 0 THEN timestamp ELSE param

IdleJob ==
    [ pc          |-> "Idle",   \* Idle, awaitGet, awaitPost
      outcome     |-> "none",   \* none, NoUsers, Empty, Advanced, Stalled
      arg         |-> never,    \* the lastRun the trigger passed to runJob
      lastRun     |-> never,    \* runJob's parameter lastRun
      i           |-> 0,        \* getGithubData: index of the current user
      url         |-> [name |-> "", since |-> <<>>],
      githubGists |-> <<>>,     \* getGithubData: responseArray
      fetchLog    |-> <<>>,     \* history: the retrieval calls completed,
                                \* ok = answered 200
      postData    |-> <<>>,     \* postPipedrive: postData
      j           |-> 0,        \* postPipedrive: index of the current entry
      postedData  |-> <<>>,     \* postPipedrive: responseArray
      postLog     |-> <<>>,     \* history: the creation requests completed,
                                \* created = answered 201
      written     |-> FALSE,    \* history: writeData was called
      after       |-> {} ]      \* history: the cycles over at the invocation

Unused(c)   == job[c].pc = "Idle" /\ job[c].outcome = "none"
Running(c)  == job[c].pc # "Idle"
Finished(c) == job[c].pc = "Idle" /\ job[c].outcome # "none"

\* runJob(config, users, lastRun) up to its first await.
runJobEntryUnguarded(arg) ==
    [IdleJob EXCEPT !.pc = "awaitGet", !.arg = arg, !.lastRun = arg, !.i = 1,
                    !.url = IF Len(users) > 0 THEN getUrl(users[1], arg)
                            ELSE [name |-> "", since |-> <<>>]]

runJobEntry(arg) ==
    IF Len(users) > 0
    THEN [IdleJob EXCEPT !.pc = "awaitGet", !.arg = arg, !.lastRun = arg,
                         !.i = 1, !.url = getUrl(users[1], arg)]
    ELSE [IdleJob EXCEPT !.outcome = "NoUsers", !.arg = arg, !.lastRun = arg]

\* The code after postPipedrive returned.
runJobExitRetriesStalled(J, postData, postedData, postLog) ==
    IF Len(postedData) > 0 \/ postData = <<>>
    THEN [J EXCEPT !.pc = "Idle",
                   !.outcome = IF Len(postedData) > 0 THEN "Advanced"
                               ELSE "Stalled",
                   !.lastRun = checkpointAfter(J.lastRun, postedData),
                   !.postData = postData,
                   !.postedData = postedData,
                   !.postLog = postLog]
    ELSE [J EXCEPT !.pc = "awaitPost", !.postData = postData, !.j = 1,
                   !.postedData = <<>>, !.postLog = <<>>]

runJobExit(J, postData, postedData, postLog) ==
    [J EXCEPT !.pc = "Idle",
              !.outcome = IF Len(postedData) > 0 THEN "Advanced" ELSE "Stalled",
              !.lastRun = checkpointAfter(J.lastRun, postedData),
              !.postData = postData,
              !.postedData = postedData,
              !.postLog = postLog]

\* The code after getGithubData returned githubGists, up to the next await.
runJobPublishAnyBatch(J, githubGists, fetchLog) ==
    LET F == [J EXCEPT !.githubGists = githubGists, !.fetchLog = fetchLog,
                       !.written = TRUE]
        postData == preparePipedriveData(githubGists)
    IN  IF postData = <<>>
        THEN runJobExit(F, postData, <<>>, <<>>)
        ELSE [F EXCEPT !.pc = "awaitPost", !.postData = postData, !.j = 1]

runJobPublish(J, githubGists, fetchLog) ==
    LET F == [J EXCEPT !.githubGists = githubGists, !.fetchLog = fetchLog]
    IN  IF countArray(githubGists) > 0
        THEN LET postData == preparePipedriveData(githubGists)
             IN  IF postData = <<>>
                 THEN runJobExit([F EXCEPT !.written = TRUE], postData,
                                 <<>>, <<>>)
                 ELSE [F EXCEPT !.pc = "awaitPost", !.postData = postData,
                                !.j = 1, !.written = TRUE]
        ELSE [F EXCEPT !.pc = "Idle", !.outcome = "Empty"]

NextCycle(c) == Unused(c) /\ \A d \in Cycles : d < c => ~Unused(d)

\* The trigger calls runJob(config, users, lastRun) with the value arg.
invoke(c, arg) ==
    [job EXCEPT ![c] =
        [runJobEntry(arg) EXCEPT !.after = {d \in Cycles : Finished(d)}]]

\* The module-level lastRun once runJob's branch on postedData has run:
\* lastRun = timestamp() assigns runJob's parameter, the module-level
\* binding keeps its value.
serverLastRunAlways(postedData) == timestamp

serverLastRunAdvanced(postedData) ==
    IF Len(postedData) > 0 THEN timestamp ELSE lastRun

serverLastRunAfter(postedData) == lastRun

\* app.listen callback: the initial run.
StartupRun(c) ==
    /\ ~listening
    /\ NextCycle(c)
    /\ listening' = TRUE
    /\ job' = invoke(c, lastRun)
    /\ UNCHANGED <<users, lastRun, now, github, pipedrive, req, transformVars>>

\* cronjob: schedule("*/15 * * * *", async () => { runJob(...) }); the
\* callback does not wait for the cycle, so cycles may overlap.
CronRun(c) ==
    /\ NextCycle(c)
    /\ job' = invoke(c, lastRun)
    /\ UNCHANGED <<users, lastRun, now, github, pipedrive, req, listening,
                   transformVars>>

\* The awaited GET of getGithubData completes.
GetResponse(c) ==
    /\ job[c].pc = "awaitGet"
    /\ \E resp \in GetResponses(job[c].url) :
        LET J   == job[c]
            arr == pushGists(J.githubGists, resp)
            log == Append(J.fetchLog,
                     [name |-> J.url.name, since |-> J.url.since,
                      ok |-> (~resp.thrown /\ resp.status = 200),
                      json |-> resp.json])
        IN  job' = [job EXCEPT ![c] =
                IF getLoopContinues(J.i, Len(users), resp)
                THEN [J EXCEPT !.githubGists = arr, !.fetchLog = log,
                               !.i = J.i + 1,
                               !.url = getUrl(users[J.i + 1], J.lastRun)]
                ELSE runJobPublish(J, arr, log)]
    /\ UNCHANGED <<users, lastRun, now, github, pipedrive, req, listening,
                   transformVars>>

\* The awaited POST of postPipedrive completes.
PostResponse(c) ==
    /\ job[c].pc = "awaitPost"
    /\ \E resp \in PostResponses(job[c].postData[job[c].j]) :
        LET J   == job[c]
            arr == pushActivity(J.postedData, resp)
            log == Append(J.postLog,
                     [entry |-> J.postData[J.j],
                      created |-> (~resp.thrown /\ resp.status = 201),
                      id |-> resp.json.data.id])
        IN  /\ pipedrive' = Created(resp)
            /\ job' = [job EXCEPT ![c] =
                IF postLoopContinues(J.j, Len(J.postData), resp)
                THEN [J EXCEPT !.postedData = arr, !.postLog = log,
                               !.j = J.j + 1]
                ELSE runJobExit(J, J.postData, arr, log)]
            /\ lastRun' =
                IF postLoopContinues(J.j, Len(J.postData), resp)
                THEN lastRun
                ELSE serverLastRunAfter(arr)
    /\ UNCHANGED <<users, now, github, req, listening, transformVars>>

\* ------------------------------------------------- GET /users/:name handler
\* getGithubDataforUser: if (user.lastVisit) url += `?since=${user.lastVisit}`
getUserUrl(user) ==
    [name |-> user.name,
     since |-> IF user.lastVisit # unset THEN <<user.lastVisit>> ELSE <<>>]

\* getGithubDataforUser: return json on 200; after the catch the function
\* ends without a return, so the caller gets undefined.
userResult(resp) ==
    IF ~resp.thrown /\ resp.status = 200
    THEN [defined |-> TRUE, value |-> resp.json]
    ELSE [defined |-> FALSE, value |-> <<>>]

\* JSON.stringify: undefined for undefined, else the text of the array;
\* "[]" is the text <<"[", "]">>.
stringify(x) ==
    IF x.defined
    THEN [defined |-> TRUE, text |-> <<"[">> \o x.value \o <<"]">>]
    ELSE [defined |-> FALSE, text |-> <<>>]

\* !gists: undefined and the empty string are falsy.
falsy(gists) == ~gists.defined \/ Len(gists.text) = 0

\* gists === "[]"
emptyArrayText(gists) == gists.defined /\ Len(gists.text) = 2

\* currentUser.lastVisit = !gists ? currentUser.lastVisit : timestamp()
newLastVisitIfShown(gists, current) ==
    IF falsy(gists) \/ emptyArrayText(gists) THEN current ELSE timestamp

newLastVisit(gists, current) ==
    IF falsy(gists) THEN current ELSE timestamp

\* The lastVisit kept on failure is read from currentUser at the assignment,
\* after the await (previousVisit is only displayed).
lastVisitBeforeAwait(R) == R.previousVisit

lastVisitAtWrite(R) == users[R.currentUser].lastVisit

\* if (!gists || gists === "[]") gists = "No gists to display!"
displayed(gists) ==
    IF falsy(gists) \/ emptyArrayText(gists)
    THEN <<"No gists to display!">>
    ELSE gists.text

\* users.find(user => user.name === name): the index, 0 when absent.
find(name) ==
    IF \E k \in 1..Len(users) : users[k].name = name
    THEN CHOOSE k \in 1..Len(users) :
            /\ users[k].name = name
            /\ \A m \in 1..(k - 1) : users[m].name # name
    ELSE 0

IdleReq ==
    [ pc            |-> "Idle",    \* Idle, awaitGet
      sent          |-> 0,         \* status of the page sent, 0 before
      name          |-> "",        \* req.params.name
      currentUser   |-> 0,         \* index of the user found
      previousVisit |-> unset,     \* unset shows as "First Visit"
      url           |-> [name |-> "", since |-> <<>>],
      fetched       |-> FALSE,     \* history: the GET gave 200
      before        |-> unset,     \* history: lastVisit replaced by the write
      page          |-> <<>> ]

NextReq(r) ==
    /\ req[r].pc = "Idle" /\ req[r].sent = 0
    /\ \A q \in AllReqs : q < r => ~(req[q].pc = "Idle" /\ req[q].sent = 0)

\* The handler up to the await of getGithubDataforUser.
Visit(r) ==
    /\ NextReq(r)
    /\ \E k \in 1..(Len(users) + 1) :
        LET name == UserNames[k]
            cur  == find(name)
        IN  req' = [req EXCEPT ![r] =
                IF cur # 0
                THEN [IdleReq EXCEPT
                        !.pc = "awaitGet", !.name = name, !.currentUser = cur,
                        !.previousVisit = users[cur].lastVisit,
                        !.url = getUserUrl(users[cur])]
                ELSE [IdleReq EXCEPT !.name = name, !.sent = 404]]
    /\ UNCHANGED <<users, lastRun, now, github, pipedrive, job, listening,
                   transformVars>>

\* The awaited GET of getGithubDataforUser completes; the rest of the handler.
VisitResponseSetsLastRun(r) ==
    /\ req[r].pc = "awaitGet"
    /\ \E resp \in GetResponses(req[r].url) :
        LET R     == req[r]
            gists == stringify(userResult(resp))
            cur   == R.currentUser
        IN  /\ users' = [users EXCEPT ![cur].lastVisit =
                            newLastVisit(gists, lastVisitAtWrite(R))]
            /\ lastRun' = newLastVisit(gists, lastRun)
            /\ req' = [req EXCEPT ![r] =
                    [R EXCEPT !.pc = "Idle", !.sent = 200,
                              !.fetched = (~resp.thrown /\ resp.status = 200),
                              !.before = users[cur].lastVisit,
                              !.page = displayed(gists)]]
    /\ UNCHANGED <<now, github, pipedrive, job, listening, transformVars>>

VisitResponse(r) ==
    /\ req[r].pc = "awaitGet"
    /\ \E resp \in GetResponses(req[r].url) :
        LET R     == req[r]
            gists == stringify(userResult(resp))
            cur   == R.currentUser
        IN  /\ users' = [users EXCEPT ![cur].lastVisit =
                            newLastVisit(gists, lastVisitAtWrite(R))]
            /\ req' = [req EXCEPT ![r] =
                    [R EXCEPT !.pc = "Idle", !.sent = 200,
                              !.fetched = (~resp.thrown /\ resp.status = 200),
                              !.before = users[cur].lastVisit,
                              !.page = displayed(gists)]]
    /\ UNCHANGED <<lastRun, now, github, pipedrive, job, listening,
                   transformVars>>

\* ------------------------------------------------------------ environment
Tick ==
    /\ now < MaxTime
    /\ now' = now + 1
    /\ UNCHANGED <<users, lastRun, github, pipedrive, job, req, listening,
                   transformVars>>

\* A tracked user creates a gist at the source.
CreateGist(k) ==
    /\ Cardinality(github) < MaxGists
    /\ github' = github \cup
         {[id |-> Cardinality(github) + 1, owner |-> users[k].name,
           created |-> now]}
    /\ UNCHANGED <<users, lastRun, now, pipedrive, job, req, listening,
                   transformVars>>

\* ------------------------------------------------------- the specification
ConfigUsers(n) == [k \in 1..n |-> [name |-> UserNames[k], lastVisit |-> unset]]

Init ==
    /\ users \in {ConfigUsers(n) : n \in 0..MaxUsers}
    /\ lastRun = never
    /\ now = 1
    /\ github = {}
    /\ pipedrive = <<>>
    /\ job = [c \in Cycles |-> IdleJob]
    /\ req = [r \in AllReqs |-> IdleReq]
    /\ listening = FALSE
    /\ tpc = "off" /\ tIn = <<>> /\ tOut = <<>>

Next ==
    \/ \E c \in Cycles : StartupRun(c)
    \/ \E c \in Cycles : CronRun(c)
    \/ \E c \in Cycles : GetResponse(c)
    \/ \E c \in Cycles : PostResponse(c)
    \/ \E r \in Reqs : Visit(r)
    \/ \E r \in Reqs : VisitResponse(r)
    \/ \E k \in 1..Len(users) : CreateGist(k)
    \/ Tick

Spec == Init /\ [][Next]_vars

\* Every network call completes: the awaited _fetch resolves or rejects, so
\* the continuation of each pending await is eventually run.
Completion ==
    /\ \A c \in Cycles : WF_vars(GetResponse(c)) /\ WF_vars(PostResponse(c))
    /\ \A r \in Reqs : WF_vars(VisitResponse(r))

\* Termination does not depend on the clock: the same system with the clock
\* standing still.
NextLive ==
    \/ \E c \in Cycles : StartupRun(c)
    \/ \E c \in Cycles : CronRun(c)
    \/ \E c \in Cycles : GetResponse(c)
    \/ \E c \in Cycles : PostResponse(c)
    \/ \E r \in Reqs : Visit(r)
    \/ \E r \in Reqs : VisitResponse(r)
    \/ \E k \in 1..Len(users) : CreateGist(k)

SpecFair == Init /\ [][NextLive]_vars /\ Completion

\* runJob and getGithubData are exported: a caller may pass any checkpoint,
\* "never" or a timestamp already taken.
Checkpoints == {never} \cup (1..now)

CallRunJob(c, arg) ==
    /\ \A d \in Cycles : Unused(d)
    /\ NextCycle(c)
    /\ job' = invoke(c, arg)
    /\ UNCHANGED <<users, lastRun, now, github, pipedrive, req, listening,
                   transformVars>>

\* The two fetch paths with every checkpoint value: one call of runJob with
\* any checkpoint, beside overlapping on-demand requests.
NextFetch ==
    \/ \E c \in Cycles : \E arg \in Checkpoints : CallRunJob(c, arg)
    \/ \E c \in Cycles : GetResponse(c)
    \/ \E c \in Cycles : PostResponse(c)
    \/ \E r \in Visits : Visit(r)
    \/ \E r \in Visits : VisitResponse(r)
    \/ \E k \in 1..Len(users) : CreateGist(k)
    \/ Tick

SpecFetch == Init /\ [][NextFetch]_vars

\* The on-demand requests alone, overlapping each other.
NextVisit ==
    \/ \E r \in Visits : Visit(r)
    \/ \E r \in Visits : VisitResponse(r)
    \/ \E k \in 1..Len(users) : CreateGist(k)
    \/ Tick

SpecVisit == Init /\ [][NextVisit]_vars

\* ------------------------------------- the transformer on arbitrary batches
RawPool == {RawRecord([id |-> k, owner |-> UserNames[k], created |-> 1]) :
              k \in 1..3}

SeqsUpTo(S, n) == UNION {[1..m -> S] : m \in 0..n}

Batches == SeqsUpTo(SeqsUpTo(RawPool, MaxRecords), MaxEntries)

InitTransform ==
    /\ users = <<>> /\ lastRun = never /\ now = 1 /\ github = {}
    /\ pipedrive = <<>>
    /\ job = [c \in Cycles |-> IdleJob]
    /\ req = [r \in AllReqs |-> IdleReq]
    /\ listening = FALSE
    /\ tpc = "ready" /\ tIn \in Batches /\ tOut = <<>>

Transform ==
    /\ tpc = "ready"
    /\ tOut' = preparePipedriveData(tIn)
    /\ tpc' = "done"
    /\ UNCHANGED <<tIn, syncVars>>

NextTransform == Transform

SpecTransform == InitTransform /\ [][NextTransform]_vars

\* ================================================================== claims
\* The retrieval calls of cycle c are over.
FetchDone(c) ==
    job[c].pc = "awaitPost" \/ job[c].outcome \in {"Empty", "Advanced", "Stalled"}

\* Cycle c takes its last step.
Ends(c) == job[c].pc # "Idle" /\ job'[c].pc = "Idle"

\* runJob is invoked for cycle c in this step.
Invoked(c) ==
    /\ job[c].pc = "Idle" /\ job[c].outcome = "none"
    /\ ~(job'[c].pc = "Idle" /\ job'[c].outcome = "none")

Max(S) == CHOOSE x \in S : \A y \in S : y <= x

\* The bodies of the retrieval calls that answered 200, in call order.
RECURSIVE OkBodies(_)
OkBodies(log) ==
    IF log = <<>> THEN <<>>
    ELSE (IF Head(log).ok THEN <<Head(log).json>> ELSE <<>>)
         \o OkBodies(Tail(log))

RECURSIVE Concat(_)
Concat(ss) == IF ss = <<>> THEN <<>> ELSE Head(ss) \o Concat(Tail(ss))

Ids(records)      == [k \in 1..Len(records) |-> records[k].id]
Subjects(records) == [k \in 1..Len(records) |-> records[k].subject]
Entries(log)      == [k \in 1..Len(log) |-> log[k].entry]
IsCreated(e)      == e.created

\* C1: a cycle that ends with at least one publish outcome leaves the
\* process-wide lastRun equal to the timestamp it took, strictly later than
\* the checkpoint the cycle started from.
C1_CheckpointAdvances ==
    [][\A c \in Cycles :
        (Ends(c) /\ Len(job'[c].postedData) > 0)
            => (lastRun' = now /\ lastRun' > job[c].arg)]_vars

\* C2: once every earlier cycle is over and one of them ended Advanced, the
\* next runJob is invoked with the checkpoint that cycle produced.
C2_NextCycleUsesCheckpoint ==
    [][\A c \in Cycles :
        LET stamps == {job[d].lastRun : d \in
                         {d \in Cycles : job[d].outcome = "Advanced"}}
        IN  (/\ Invoked(c)
             /\ \A d \in Cycles : d < c => Finished(d)
             /\ stamps # {})
            => job'[c].arg = Max(stamps)]_vars

\* C3: a cycle that ends with an empty batch or with zero publish outcomes
\* leaves lastRun (the server's, and runJob's own parameter) at the value
\* the cycle started from.
C3_CheckpointStable ==
    [][\A c \in Cycles :
        (/\ Ends(c)
         /\ \/ countArray(job'[c].githubGists) = 0
            \/ Len(job'[c].postedData) = 0)
        => (/\ lastRun' = job[c].arg
            /\ job'[c].lastRun = job[c].arg)]_vars

C3_Witness ==
    \E c, d \in Cycles :
        /\ job[c].outcome = "Stalled" /\ countArray(job[c].githubGists) > 0
        /\ job[d].outcome = "Empty" /\ job[d].fetchLog # <<>>

\* C4 (as claimed): the batch has one collection per entity, in list order,
\* empty for an entity whose fetch failed.
C4_OneCollectionPerEntity ==
    \A c \in Cycles :
        FetchDone(c) =>
            /\ Len(job[c].githubGists) = Len(users)
            /\ \A k \in 1..Len(users) :
                job[c].githubGists[k] =
                    IF job[c].fetchLog[k].ok THEN job[c].fetchLog[k].json
                    ELSE <<>>

\* C4 (amended): the batch has one collection per entity whose fetch answered
\* 200, in list order, holding that entity's records; a failed entity
\* contributes no collection.
C4_OneCollectionPerSuccess ==
    \A c \in Cycles :
        FetchDone(c) =>
            /\ Len(job[c].fetchLog) = Len(users)
            /\ job[c].githubGists = OkBodies(job[c].fetchLog)

C4_Witness ==
    \E c \in Cycles :
        /\ FetchDone(c)
        /\ \E k, m \in 1..Len(job[c].fetchLog) :
            /\ ~job[c].fetchLog[k].ok
            /\ job[c].fetchLog[m].ok /\ job[c].fetchLog[m].json # <<>>

\* C5: every entity gets exactly one retrieval call, in list order, whatever
\* failed before it, and every record of the successful entities is submitted
\* to the destination in the same cycle.
C5_FetchIsolation ==
    \A c \in Cycles :
        LET J == job[c] IN
        /\ Len(J.fetchLog) <= Len(users)
        /\ \A k \in 1..Len(J.fetchLog) : J.fetchLog[k].name = users[k].name
        /\ J.pc = "awaitGet" =>
              /\ J.i = Len(J.fetchLog) + 1
              /\ J.i <= Len(users)
              /\ J.url.name = users[J.i].name
        /\ FetchDone(c) => Len(J.fetchLog) = Len(users)
        /\ J.outcome \in {"Empty", "Advanced", "Stalled"} =>
              Subjects(Entries(J.postLog)) = Ids(Concat(OkBodies(J.fetchLog)))

C5_Witness ==
    \E c \in Cycles :
        /\ job[c].outcome \in {"Advanced", "Stalled"}
        /\ Len(job[c].fetchLog) = 2
        /\ ~job[c].fetchLog[1].ok
        /\ job[c].fetchLog[2].ok
        /\ job[c].postLog # <<>>

\* C6: publish issues exactly one creation request per transformed record, in
\* input order, going on after a failure and never repeating a record.
C6_OneRequestPerRecord ==
    \A c \in Cycles :
        LET J == job[c] IN
        /\ Len(J.postLog) <= Len(J.postData)
        /\ \A k \in 1..Len(J.postLog) : J.postLog[k].entry = J.postData[k]
        /\ J.pc = "awaitPost" =>
              /\ J.j = Len(J.postLog) + 1
              /\ J.j <= Len(J.postData)
        /\ J.outcome \in {"Advanced", "Stalled"} =>
              Entries(J.postLog) = J.postData

C6_Witness ==
    \E c \in Cycles :
        /\ job[c].outcome = "Advanced"
        /\ Len(job[c].postData) = 2
        /\ ~job[c].postLog[1].created
        /\ job[c].postLog[2].created

\* C7: the outcomes are exactly the records answered 201, one entry each, in
\* the order of their records.
C7_OutcomesAreCreatedInOrder ==
    \A c \in Cycles :
        LET J  == job[c]
            ok == SelectSeq(J.postLog, IsCreated)
        IN  /\ Len(J.postedData) = Len(ok)
            /\ \A k \in 1..Len(ok) :
                J.postedData[k] = [id |-> ok[k].id,
                                   subject |-> ok[k].entry.subject,
                                   success |-> TRUE]

C7_Witness ==
    \E c, d \in Cycles :
        /\ Finished(c) /\ Len(job[c].postedData) = 2
        /\ job[c].postedData[1].subject # job[c].postedData[2].subject
        /\ Finished(d) /\ Len(job[d].postLog) = 2
        /\ ~job[d].postLog[1].created /\ job[d].postLog[2].created

\* C8: the request handler sets the user's lastVisit to the current timestamp
\* exactly when getGithubDataforUser answered 200 (zero records included);
\* otherwise every lastVisit stays as it was.
C8_LastVisitOnSuccessOnly ==
    [][/\ \A r \in AllReqs :
            (req[r].pc = "awaitGet" /\ req'[r].pc = "Idle") =>
                users'[req[r].currentUser].lastVisit =
                    IF req'[r].fetched THEN now
                    ELSE users[req[r].currentUser].lastVisit
       /\ \A k \in 1..Len(users) :
            users'[k].lastVisit # users[k].lastVisit =>
                \E r \in AllReqs :
                    /\ req[r].pc = "awaitGet" /\ req'[r].pc = "Idle"
                    /\ req[r].currentUser = k
                    /\ req'[r].fetched]_vars

C8_Witness ==
    \E r, q \in AllReqs :
        /\ req[r].sent = 200 /\ req[r].fetched
        /\ req[r].page = <<"No gists to display!">>
        /\ users[req[r].currentUser].lastVisit # unset
        /\ req[q].sent = 200 /\ ~req[q].fetched
        /\ req[q].currentUser # req[r].currentUser
        /\ users[req[q].currentUser].lastVisit = unset

\* C9: transform yields one record per raw record of the batch, in
\* entity-then-record order, with subject = the raw record's identifier.
Offset(json, e) == SumLen(SubSeq(json, 1, e - 1))

C9_TransformFlattens ==
    tpc = "done" =>
        /\ Len(tOut) = SumLen(tIn)
        /\ \A e \in 1..Len(tIn) : \A k \in 1..Len(tIn[e]) :
            /\ tOut[Offset(tIn, e) + k].subject = tIn[e][k].id
            /\ tOut[Offset(tIn, e) + k] = Activity(tIn[e][k])

C9_Witness ==
    /\ tpc = "done"
    /\ Len(tIn) = 2 /\ Len(tIn[1]) = 2 /\ Len(tIn[2]) = 2
    /\ tIn[1][1].id # tIn[1][2].id /\ tIn[1][2].id # tIn[2][1].id
    /\ Len(tOut) = 4

\* C10: in every cycle outcomes <= transformed records <= raw records of
\* the batch, and the checkpoint moves only in a cycle with an outcome.
C10_CountInvariant ==
    \A c \in Cycles :
        LET J == job[c] IN
        /\ Len(J.postedData) <= Len(J.postData)
        /\ Len(J.postData) <= countArray(J.githubGists)
        /\ (J.lastRun # J.arg \/ lastRun # J.arg) => Len(J.postedData) > 0

C10_Witness ==
    \E c \in Cycles :
        /\ job[c].outcome = "Advanced"
        /\ Len(job[c].postedData) < Len(job[c].postData)
        /\ job[c].lastRun # job[c].arg

\* C11: with an empty tracked-user list a cycle issues no retrieval call and
\* no creation request, leaves the checkpoint as it was and is back in Idle
\* at once.
C11_EmptyUserList ==
    \A c \in Cycles :
        (Len(users) = 0 \/ job[c].outcome = "NoUsers") =>
            /\ job[c].pc = "Idle"
            /\ job[c].outcome \in {"none", "NoUsers"}
            /\ job[c].fetchLog = <<>> /\ job[c].postLog = <<>>
            /\ job[c].postData = <<>> /\ ~job[c].written
            /\ job[c].lastRun = job[c].arg /\ lastRun = job[c].arg
            /\ pipedrive = <<>>

C11_Witness ==
    /\ Len(users) = 0
    /\ \A c \in Cycles : job[c].outcome = "NoUsers"
    /\ \E r \in AllReqs : req[r].sent = 404

\* C12: the request path never changes lastRun (the server's or a cycle's),
\* a sync cycle never changes a lastVisit, lastRun changes only in a step of
\* runJob, and the tracked users keep their number and names.
C12_WatermarksSeparate ==
    [][/\ req' # req =>
            /\ lastRun' = lastRun
            /\ \A c \in Cycles : job'[c].lastRun = job[c].lastRun
       /\ job' # job => users' = users
       /\ lastRun' # lastRun => \E c \in Cycles : Ends(c)
       /\ Len(users') = Len(users)
       /\ \A k \in 1..Len(users) : users'[k].name = users[k].name]_vars

C12_Witness ==
    /\ \E c \in Cycles : job[c].outcome = "Advanced" /\ job[c].lastRun # never
    /\ \E r \in AllReqs :
        /\ req[r].fetched
        /\ users[req[r].currentUser].lastVisit # unset
    /\ Len(users) = 2

\* C13: a cycle whose batch holds zero records in total saves nothing,
\* transforms nothing, issues no creation request and is back in Idle.
C13_EmptyBatchSkipsPublish ==
    \A c \in Cycles :
        (FetchDone(c) /\ countArray(job[c].githubGists) = 0) =>
            /\ job[c].pc = "Idle"
            /\ job[c].outcome = "Empty"
            /\ ~job[c].written
            /\ job[c].postData = <<>>
            /\ job[c].postLog = <<>>
            /\ job[c].postedData = <<>>
            /\ job[c].lastRun = job[c].arg

C13_Witness ==
    \E c \in Cycles :
        /\ job[c].outcome = "Empty"
        /\ Len(job[c].fetchLog) = 2
        /\ job[c].fetchLog[1].ok /\ job[c].fetchLog[1].json = <<>>
        /\ ~job[c].fetchLog[2].ok
        /\ github # {}

\* C14: inside one cycle at most one network request is in flight; the
\* retrieval of the next user starts only when the previous one is over, the
\* creation request of the next record only when the previous one is over,
\* and no creation request starts before every retrieval is over.
C14_StrictSequencing ==
    \A c \in Cycles :
        LET J         == job[c]
            getsOpen  == J.i - Len(J.fetchLog)   \* started and not completed
            postsOpen == J.j - Len(J.postLog)
        IN  /\ getsOpen \in {0, 1}
            /\ postsOpen \in {0, 1}
            /\ getsOpen + postsOpen <= 1
            /\ (getsOpen + postsOpen = 1) <=> (J.pc # "Idle")
            /\ getsOpen = 1 => J.pc = "awaitGet"
            /\ postsOpen = 1 => J.pc = "awaitPost"
            /\ J.j > 0 => (getsOpen = 0 /\ Len(J.fetchLog) = Len(users))

C14_Witness ==
    \E c \in Cycles :
        /\ job[c].pc = "awaitPost" /\ job[c].j = 2
        /\ Len(job[c].fetchLog) = 2
        /\ Len(job[c].postLog) = 1

\* Cycle c is the first one invoked after cycle d was over.
NextAfter(c, d) ==
    /\ d \in job[c].after
    /\ \A e \in Cycles : (e < c /\ ~Unused(e)) => d \notin job[e].after

\* The subjects of the creation requests cycle c has completed.
Submitted(c) == {job[c].postLog[n].entry.subject : n \in 1..Len(job[c].postLog)}

\* The records cycle d fetched for a user whose retrieval cycle c has
\* completed with status 200 too.
RefetchDue(c, d) ==
    UNION {{job[d].fetchLog[k].json[m] : m \in 1..Len(job[d].fetchLog[k].json)} :
             k \in {k \in 1..Len(job[c].fetchLog) :
                      job[c].fetchLog[k].ok /\ job[d].fetchLog[k].ok}}

Fetched(c) ==
    UNION {{job[c].fetchLog[k].json[m] : m \in 1..Len(job[c].fetchLog[k].json)} :
             k \in 1..Len(job[c].fetchLog)}

\* C15: the first cycle invoked after a Stalled cycle is called with the
\* checkpoint the stalled cycle was called with, and fetches and submits
\* again every record the stalled cycle fetched, for each user whose
\* retrieval answers 200 again.
C15_StalledCycleRetried ==
    \A c, d \in Cycles :
        (NextAfter(c, d) /\ job[d].outcome = "Stalled") =>
            /\ job[c].arg = job[d].arg
            /\ RefetchDue(c, d) \subseteq Fetched(c)
            /\ Finished(c) =>
                  {g.id : g \in RefetchDue(c, d)} \subseteq Submitted(c)

C15_Witness ==
    \E c, d \in Cycles :
        /\ NextAfter(c, d) /\ job[d].outcome = "Stalled"
        /\ Finished(c)
        /\ RefetchDue(c, d) # {}
        /\ Fetched(d) = RefetchDue(c, d)

\* C16: when every network call completes, every cycle that was invoked is
\* back in Idle with an outcome, whatever failed, and every request handler
\* that awaits getGithubDataforUser sends its page: no error of a fetch or of
\* a publish ends a cycle or a handler early.
C16_CycleReturnsToIdle ==
    /\ \A c \in Cycles :
        (job[c].pc # "Idle") ~>
            (job[c].pc = "Idle" /\
             job[c].outcome \in {"Empty", "Advanced", "Stalled"})
    /\ \A r \in Reqs :
        (req[r].pc = "awaitGet") ~> (req[r].pc = "Idle" /\ req[r].sent = 200)

C16_Witness ==
    /\ \E c \in Cycles :
        /\ job[c].pc = "Idle" /\ job[c].outcome = "Stalled"
        /\ Len(job[c].fetchLog) = 2 /\ ~job[c].fetchLog[1].ok
        /\ Len(job[c].postLog) = 2
    /\ \E r \in Reqs : req[r].sent = 200 /\ ~req[r].fetched

\* C17: every retrieval call of a cycle carries since = the checkpoint the
\* cycle was called with exactly when that checkpoint is not "never", the
\* same for all users; the retrieval call of the request handler carries
\* since = the user's lastVisit exactly when lastVisit is set, whatever the
\* checkpoint is.
SinceOf(t, none) == IF t # none THEN <<t>> ELSE <<>>

C17_SinceWatermark ==
    /\ \A c \in Cycles :
        /\ \A k \in 1..Len(job[c].fetchLog) :
            job[c].fetchLog[k].since = SinceOf(job[c].arg, never)
        /\ job[c].pc = "awaitGet" =>
            job[c].url.since = SinceOf(job[c].arg, never)
    /\ \A r \in AllReqs :
        (req[r].pc = "awaitGet" \/ req[r].sent = 200) =>
            req[r].url.since = SinceOf(req[r].previousVisit, unset)

C17_Witness ==
    /\ \E c \in Cycles :
        /\ job[c].arg # never
        /\ Len(job[c].fetchLog) = 2
        /\ job[c].fetchLog[2].since = <<job[c].arg>>
    /\ \E r \in AllReqs :
        /\ req[r].sent = 200 /\ req[r].url.since # <<>>
        /\ \A c \in Cycles : req[r].url.since # <<job[c].arg>>
    /\ \E r \in AllReqs : req[r].sent = 200 /\ req[r].url.since = <<>>

\* C18: no write of a user's lastVisit stores a value earlier than the one it
\* replaces, under every interleaving of requests for the same user.
C18_LastVisitMonotone ==
    [][\A k \in 1..Len(users) :
        users'[k].lastVisit >= users[k].lastVisit]_vars

\* Two requests for the same user overlapped: the second to finish had read
\* an unset lastVisit before its await and replaced a set one after it.
C18_Witness ==
    \E r, q \in AllReqs :
        /\ r # q
        /\ req[r].currentUser = req[q].currentUser
        /\ req[r].sent = 200 /\ req[q].sent = 200
        /\ req[r].fetched
        /\ req[q].previousVisit = unset /\ req[q].before # unset
        /\ users[req[q].currentUser].lastVisit >= req[q].before

\* The subjects whose creation request was not answered 201 in cycle d.
Rejected(d) ==
    {job[d].postLog[n].entry.subject :
        n \in {n \in 1..Len(job[d].postLog) : ~job[d].postLog[n].created}}

\* The records cycle d fetched and failed to publish, of the users whose
\* retrieval cycle c has completed with status 200.
RejectedDue(c, d) == {g \in RefetchDue(c, d) : g.id \in Rejected(d)}

====
